---- MODULE Spec2Model ----
(***************************************************************************)
(* Model of the modal dialog coordinator of src/src/modalService.ts: the   *)
(* single active modal, the FIFO queue of deferred starts, the promise of  *)
(* every request, field validation and the focus trap.                     *)
(*                                                                         *)
(* One action is one event handler (or one call of an exported function)   *)
(* run to completion: JavaScript is single threaded and a promise's        *)
(* continuation runs as a microtask after the handler that resolved it, so *)
(* what a caller does with an outcome is a later action (another Open).    *)
(***************************************************************************)
EXTENDS Integers, Sequences, FiniteSets, TLC

\* ------------------------------------------------------------------ bounds
\* number of open calls made in one run
MaxRequests == 3

Ids == 1..MaxRequests

\* number of modals the viewer flows open in one run
MaxFlowRequests == 5

AllIds == 1..MaxFlowRequests

\* ------------------------------------------------------------ JS values
Undefined == "<undefined>"
Null == "<null>"
\* the boolean false of an options object (dismissible: false)
JsFalse == "false"

\* a control's value: a string, as the sequence of its characters
UndefinedValue == <<"<undefined>">>
Values == {<< >>, <<" ">>, <<"a">>}

IsSpace(c) == c = " "

RECURSIVE TrimStart(_)
TrimStart(s) ==
  IF s = << >> THEN << >>
  ELSE IF IsSpace(Head(s)) THEN TrimStart(Tail(s)) ELSE s

RECURSIVE TrimEnd(_)
TrimEnd(s) ==
  IF s = << >> THEN << >>
  ELSE IF IsSpace(s[Len(s)]) THEN TrimEnd(SubSeq(s, 1, Len(s) - 1)) ELSE s

\* String.prototype.trim
Trim(s) == TrimEnd(TrimStart(s))

\* the ?? operator
Coalesce(x, d) == IF x \in {Undefined, Null} THEN d ELSE x

\* ------------------------------------------------------------- requests
\* a ModalField: type is "text", "textarea", "select" or "date"; options are
\* the values of a select's options in order
TypedField(n, t, r, opts, i) ==
  [name |-> n, type |-> t, required |-> r, options |-> opts, initialValue |-> i]

Field(n, r, i) == TypedField(n, "text", r, << >>, i)

SelectField(n, r, opts, i) == TypedField(n, "select", r, opts, i)

\* ------------------------------------------------------------ date strings
DigitValue(c) ==
  CASE c = "0" -> 0 [] c = "1" -> 1 [] c = "2" -> 2 [] c = "3" -> 3 [] c = "4" -> 4
    [] c = "5" -> 5 [] c = "6" -> 6 [] c = "7" -> 7 [] c = "8" -> 8 [] c = "9" -> 9
    [] OTHER -> -1

AllDigits(s) == \A k \in 1..Len(s) : DigitValue(s[k]) >= 0

RECURSIVE Number(_)
Number(s) ==
  IF s = << >> THEN 0
  ELSE 10 * Number(SubSeq(s, 1, Len(s) - 1)) + DigitValue(s[Len(s)])

DaysInMonth(year, month) ==
  IF month = 2
  THEN (IF year % 400 = 0 \/ (year % 4 = 0 /\ year % 100 # 0) THEN 29 ELSE 28)
  ELSE IF month \in {4, 6, 9, 11} THEN 30 ELSE 31

\* a valid date string: a year of four or more digits, greater than zero, a
\* month and a day of that month, separated by hyphens
IsDateString(s) ==
  LET n == Len(s)
  IN /\ n >= 10
     /\ s[n - 2] = "-"
     /\ s[n - 5] = "-"
     /\ AllDigits(SubSeq(s, 1, n - 6))
     /\ AllDigits(SubSeq(s, n - 4, n - 3))
     /\ AllDigits(SubSeq(s, n - 1, n))
     /\ LET year == Number(SubSeq(s, 1, n - 6))
            month == Number(SubSeq(s, n - 4, n - 3))
            day == Number(SubSeq(s, n - 1, n))
        IN /\ year > 0
           /\ month \in 1..12
           /\ day \in 1..DaysInMonth(year, month)

\* the value a date input keeps of a string it is given
SanitizeDate(s) == IF IsDateString(s) THEN s ELSE << >>

LeapDay == <<"2", "0", "2", "4", "-", "0", "2", "-", "2", "9">>
NoSuchDay == <<"2", "0", "2", "3", "-", "0", "2", "-", "2", "9">>

\* the options object a caller passes; fieldsSet says whether it has a
\* fields property at all (alert and confirm callers pass none)
Options(c, d, fs, f) ==
  [cancelLabel |-> c, dismissible |-> d, fieldsSet |-> fs, fields |-> f]

Call(k, o) == [kind |-> k, options |-> o]

\* the calls the model draws from: the three entry points with default
\* options, with the cancel label and dismissible overridden, and forms with
\* no field, with required and optional fields, blank and pre-filled
Requests ==
  { Call("alert", Options(Undefined, Undefined, FALSE, << >>)),
    Call("alert", Options("Back", JsFalse, FALSE, << >>)),
    Call("confirm", Options(Undefined, Undefined, FALSE, << >>)),
    Call("confirm", Options(Null, JsFalse, FALSE, << >>)),
    Call("form", Options(Undefined, Undefined, TRUE, << >>)),
    Call("form", Options(Undefined, Undefined, TRUE,
           <<Field("name", TRUE, UndefinedValue), Field("note", FALSE, UndefinedValue)>>)),
    Call("form", Options(Null, JsFalse, TRUE, <<Field("name", TRUE, <<" ">>)>>)) }

NoCall == Call("none", Options(Undefined, Undefined, FALSE, << >>))

\* a showAlertModal that passes the options on as they are
showAlertModalAsIs(options) == options

\* what each entry point hands to openModal
showAlertModal(options) ==
  [options EXCEPT !.cancelLabel = Coalesce(options.cancelLabel, Null)]

showConfirmModal(options) ==
  [options EXCEPT !.cancelLabel = Coalesce(options.cancelLabel, "Cancel")]

showFormModal(options) == options

openOptions(call) ==
  CASE call.kind = "alert" -> showAlertModal(call.options)
    [] call.kind = "confirm" -> showConfirmModal(call.options)
    [] OTHER -> showFormModal(call.options)

\* what each entry point returns for the outcome its promise resolved with
showConfirmModalReturn(result) == result.confirmed

NullReturn == [null |-> TRUE]

showFormModalReturn(result) ==
  IF ~result.confirmed \/ "values" \notin DOMAIN result
  THEN NullReturn
  ELSE [values |-> result.values]

\* ------------------------------------------------- what start() renders
\* a start that ignores the dismissible option
alwaysDismissible(o) == TRUE

dismissible(o) == o.dismissible # JsFalse

\* form is non-null only for a non-empty fields array
hasForm(o) == o.fieldsSet /\ Len(o.fields) > 0

cancelLabel(o) ==
  IF o.cancelLabel = Undefined
  THEN (IF o.fieldsSet THEN "Cancel" ELSE "Close")
  ELSE o.cancelLabel

hasCancelButton(o) == cancelLabel(o) # Null

\* the value a freshly rendered control holds: a text input or textarea has
\* initialValue ?? ""; a select has the option equal to initialValue selected,
\* and otherwise shows its first option (no value when it has no option); a
\* date input is given a truthy initialValue and keeps it if it is a date
renderField(field) ==
  CASE field.type = "select" ->
         IF /\ field.initialValue # UndefinedValue
            /\ \E i \in 1..Len(field.options) : field.options[i] = field.initialValue
         THEN field.initialValue
         ELSE IF field.options = << >> THEN << >> ELSE field.options[1]
    [] field.type = "date" ->
         IF field.initialValue \in {UndefinedValue, << >>} THEN << >>
         ELSE SanitizeDate(field.initialValue)
    [] OTHER ->
         IF field.initialValue = UndefinedValue THEN << >> ELSE field.initialValue

\* the values the user can give a control: any text, one of the options, a
\* date or none
Choices(field) ==
  CASE field.type = "select" -> {field.options[i] : i \in 1..Len(field.options)}
    [] field.type = "date" -> {<< >>, LeapDay}
    [] OTHER -> Values

\* the focusable controls of the panel in DOM order: the form's inputs, the
\* cancel button, the confirm button
getFocusableElements(o) ==
  (IF hasForm(o) THEN [i \in 1..Len(o.fields) |-> "input"] ELSE << >>)
    \o (IF hasCancelButton(o) THEN <<"cancel">> ELSE << >>)
    \o <<"confirm">>

\* ---------------------------------------------------------------- state
VARIABLES
  nextId,            \* number of open calls made so far
  request,           \* request[m]: the call that made request m
  activeModal,       \* the overlay of the active modal, 0 for null
  activeResolver,    \* the request whose resolve is pending, 0 for null
  modalQueue,        \* the deferred start closures, by request
  releaseFocusTrap,  \* the panel whose keydown listener it removes, 0 for null
  host,              \* the overlays that are children of #modal-root
  scrollLocked,      \* body has class overflow-hidden
  listeners,         \* the panels that have a keydown listener attached
  focus,             \* document.activeElement
  previousActiveElement,  \* per started request, captured by start()
  input,             \* per started request, the value of each control
  error,             \* per started request, error.dataset.active of each field
  resolveCalls,      \* how many times each request's resolve was invoked
  promise,           \* the value each request's promise is settled with
  startOrder,        \* the requests in the order start() ran
  resolveOrder,      \* the requests in the order their resolve was invoked
  atResolve,         \* what was still in place when resolve was last invoked
  atActivate,        \* the keydown listeners attached when a trap was last activated
  last,              \* the event the last handler ran for
  store,             \* the todo store: its todos and its categories
  continuation,      \* per request, what its caller does once it resolves
  chat,              \* the chat viewer and its call of streamChatAPI
  sse,               \* a request to POST /api/chat/stream and its response
  imageGen,          \* the ImageGenViewer and its requests to the API
  vision             \* the vision viewer and its calls of analyzeImageAPI

coord == <<activeModal, activeResolver, modalQueue, releaseFocusTrap, host,
           scrollLocked, listeners, focus, previousActiveElement, input, error,
           resolveCalls, promise, startOrder, resolveOrder, atResolve,
           atActivate>>

ai == <<chat, sse, imageGen, vision>>

app == <<store, continuation, ai>>

todoVars == <<nextId, request, coord, last, store, continuation>>

vars == <<nextId, request, coord, last, app>>

\* elements: <<0, 0>> is document.body, <<0, 1>> a control of the page,
\* <<m, i>> the i-th focusable control of request m's panel
Body == <<0, 0>>
PageControl == <<0, 1>>

Pending == [state |-> "pending"]

\* the coordinator's state as one value, so that a handler's calls compose
State ==
  [activeModal |-> activeModal, activeResolver |-> activeResolver,
   modalQueue |-> modalQueue, releaseFocusTrap |-> releaseFocusTrap,
   host |-> host, scrollLocked |-> scrollLocked, listeners |-> listeners,
   focus |-> focus, previousActiveElement |-> previousActiveElement,
   input |-> input, error |-> error, resolveCalls |-> resolveCalls,
   promise |-> promise, startOrder |-> startOrder, resolveOrder |-> resolveOrder,
   atResolve |-> atResolve, atActivate |-> atActivate]

Becomes(s) ==
  /\ activeModal' = s.activeModal
  /\ activeResolver' = s.activeResolver
  /\ modalQueue' = s.modalQueue
  /\ releaseFocusTrap' = s.releaseFocusTrap
  /\ host' = s.host
  /\ scrollLocked' = s.scrollLocked
  /\ listeners' = s.listeners
  /\ focus' = s.focus
  /\ previousActiveElement' = s.previousActiveElement
  /\ input' = s.input
  /\ error' = s.error
  /\ resolveCalls' = s.resolveCalls
  /\ promise' = s.promise
  /\ startOrder' = s.startOrder
  /\ resolveOrder' = s.resolveOrder
  /\ atResolve' = s.atResolve
  /\ atActivate' = s.atActivate

\* a request whose caller the model does not follow
NoFlow == [kind |-> "none", pc |-> "none", arg |-> << >>]

\* generated counts the ids generateId has made
EmptyStore == [todos |-> << >>, categories |-> << >>, generated |-> 0]

\* chatViewer: isStreaming (line 121) and the disabled flag of #chat-input
\* and #send-btn; pc is where its call of streamChatAPI stands, calls the
\* callbacks that call has invoked, messages the roles of the messages list
InitChat ==
  [isStreaming |-> FALSE, disabled |-> FALSE, messages |-> << >>,
   pc |-> "none", calls |-> << >>, reads |-> 0, sends |-> 0]

\* the chat controller before its first request: pc is where streamChat
\* stands, messages the body's messages of the request being served, status
\* and headersSent the response's, json whether a JSON body was sent, events
\* the SSE events written, ended whether the response has ended
InitSse ==
  [pc |-> "idle", messages |-> [present |-> FALSE, isArray |-> FALSE, items |-> << >>],
   status |-> 0, headersSent |-> FALSE, json |-> FALSE, events |-> << >>,
   ended |-> FALSE, posts |-> 0]

\* ImageGenViewer after construction: promptInput.value, isGenerating,
\* generateBtn.disabled, the status line, the number of generatedImages, the
\* calls of generateImageAPI that have not settled; requests counts the calls
\* made, clicks the events handled, last is the last of them
InitImageGen ==
  [prompt |-> << >>, isGenerating |-> FALSE, disabled |-> FALSE,
   status |-> "none", generatedImages |-> 0, inFlight |-> 0, requests |-> 0,
   clicks |-> 0, last |-> [ev |-> "none", started |-> FALSE]]

\* the vision viewer after rendering: whether currentImage is set,
\* isAnalyzing, the disabled flag of #analyze-btn, what analysisResult holds,
\* the FileReader loads and the calls of analyzeImageAPI that have not
\* ended; events counts the user's events
InitVision ==
  [currentImage |-> FALSE, isAnalyzing |-> FALSE, disabled |-> TRUE,
   analysisResult |-> "", loading |-> 0, streams |-> 0, events |-> 0]

\* the state after construction, with room for the requests ids
InitOver(ids) ==
  /\ chat = InitChat
  /\ sse = InitSse
  /\ imageGen = InitImageGen
  /\ vision = InitVision
  /\ nextId = 0
  /\ request = [m \in ids |-> NoCall]
  /\ activeModal = 0
  /\ activeResolver = 0
  /\ modalQueue = << >>
  /\ releaseFocusTrap = 0
  /\ host = {}
  /\ scrollLocked = FALSE
  /\ listeners = {}
  /\ focus = PageControl
  /\ previousActiveElement = [m \in ids |-> Body]
  /\ input = [m \in ids |-> << >>]
  /\ error = [m \in ids |-> << >>]
  /\ resolveCalls = [m \in ids |-> 0]
  /\ promise = [m \in ids |-> Pending]
  /\ startOrder = << >>
  /\ resolveOrder = << >>
  /\ atResolve = [id |-> 0, attached |-> FALSE, scrollLocked |-> FALSE,
                  trapped |-> FALSE, started |-> 0]
  /\ atActivate = [id |-> 0, attached |-> {}]
  /\ last = [ev |-> "init", id |-> 0]
  /\ continuation = [m \in ids |-> NoFlow]

InitCoordinator == InitOver(Ids)

Init == InitCoordinator /\ store = EmptyStore

\* ------------------------------------------------------------ operations
\* a lockScroll that adds the class whatever it is asked
lockScrollAlways(s, lock) == [s EXCEPT !.scrollLocked = TRUE]

lockScroll(s, lock) == [s EXCEPT !.scrollLocked = lock]

\* attaches the keydown listener; the release closure removes it
activateFocusTrap(s, m, o) ==
  IF Len(getFocusableElements(o)) = 0
  THEN [s EXCEPT !.releaseFocusTrap = m]
  ELSE [s EXCEPT !.releaseFocusTrap = m, !.listeners = @ \cup {m},
                 !.atActivate = [id |-> m, attached |-> s.listeners]]

\* focuses the first focusable control, or the panel itself
setInitialFocus(s, m, o) ==
  IF Len(getFocusableElements(o)) > 0
  THEN [s EXCEPT !.focus = <<m, 1>>]
  ELSE [s EXCEPT !.focus = <<m, 0>>]

\* the start closure of request m, given the call that made it
start(s, m, call) ==
  LET o == openOptions(call)
      rendered ==
        [s EXCEPT
           !.previousActiveElement[m] = s.focus,
           !.input[m] =
             IF hasForm(o) THEN [i \in 1..Len(o.fields) |-> renderField(o.fields[i])]
             ELSE << >>,
           !.error[m] =
             IF hasForm(o) THEN [i \in 1..Len(o.fields) |-> FALSE] ELSE << >>,
           !.host = @ \cup {m},
           !.startOrder = Append(@, m)]
      mounted ==
        [lockScroll(rendered, TRUE) EXCEPT !.activeModal = m, !.activeResolver = m]
  IN setInitialFocus(activateFocusTrap(mounted, m, o), m, o)

\* resolve(result) of request m's promise: only the first call settles it
resolve(s, m, result) ==
  [s EXCEPT
     !.resolveCalls[m] = @ + 1,
     !.promise[m] = IF @ = Pending THEN result ELSE @,
     !.resolveOrder = Append(@, m),
     !.atResolve = [id |-> m, attached |-> m \in s.host,
                    scrollLocked |-> s.scrollLocked,
                    trapped |-> s.releaseFocusTrap # 0 \/ m \in s.listeners,
                    started |-> Len(s.startOrder)]]

\* activeModal.remove(): nothing references the controls of a removed panel
\* any more, so the model stops tracking their values
dropControls(s, m) == [s EXCEPT !.input[m] = << >>, !.error[m] = << >>]

\* a removal that leaves the focus trap of the closing modal in place
removeOverlayTrapped(s) ==
  lockScroll([dropControls(s, s.activeModal) EXCEPT
                !.host = @ \ {s.activeModal},
                !.focus = IF @[1] = s.activeModal THEN Body ELSE @,
                !.activeModal = 0],
             FALSE)

removeOverlay(s) ==
  LET removed ==
        [dropControls(s, s.activeModal) EXCEPT
           !.host = @ \ {s.activeModal},
           !.focus = IF @[1] = s.activeModal THEN Body ELSE @,
           !.activeModal = 0]
      unlocked == lockScroll(removed, FALSE)
  IN IF unlocked.releaseFocusTrap # 0
     THEN [unlocked EXCEPT
             !.listeners = @ \ {unlocked.releaseFocusTrap},
             !.releaseFocusTrap = 0]
     ELSE unlocked

\* a close that calls the resolver and keeps the reference to it
callResolverKept(s, result) ==
  IF s.activeResolver # 0 THEN resolve(s, s.activeResolver, result) ELSE s

callResolver(s, result) ==
  LET resolver == s.activeResolver
      cleared == [s EXCEPT !.activeResolver = 0]
  IN IF resolver # 0 THEN resolve(cleared, resolver, result) ELSE cleared

\* a close that leaves the queue alone
keepQueue(s, req) == s

\* a queue that serves the newest request first
popQueue(s, req) ==
  IF s.modalQueue # << >>
  THEN LET next == s.modalQueue[Len(s.modalQueue)]
       IN start([s EXCEPT !.modalQueue = SubSeq(@, 1, Len(@) - 1)], next, req[next])
  ELSE s

\* a close that takes the head of the queue and does not call it
shiftQueueUncalled(s, req) ==
  IF s.modalQueue # << >> THEN [s EXCEPT !.modalQueue = Tail(@)] ELSE s

\* modalQueue.shift() and the call of the closure it returns
shiftQueue(s, req) ==
  IF s.modalQueue # << >>
  THEN LET next == Head(s.modalQueue)
       IN start([s EXCEPT !.modalQueue = Tail(@)], next, req[next])
  ELSE s

\* a close that invokes the resolver before it tears the modal down
closeModalResolverFirst(s, req, result) ==
  IF s.activeModal = 0 THEN s
  ELSE LET resolved == resolve(s, s.activeResolver, result)
       IN shiftQueue([removeOverlay(resolved) EXCEPT !.activeResolver = 0], req)

closeModal(s, req, result) ==
  IF s.activeModal = 0 THEN s
  ELSE shiftQueue(callResolver(removeOverlay(s), result), req)

\* a validation pass that stops at the first invalid field
validateFieldsFirst(s, m, o) ==
  [s EXCEPT
     !.error[m] =
       [i \in 1..Len(o.fields) |->
          IF /\ o.fields[i].required /\ Trim(s.input[m][i]) = << >>
             /\ \A j \in 1..(i - 1) :
                  ~(o.fields[j].required /\ Trim(s.input[m][j]) = << >>)
          THEN TRUE ELSE @[i]]]

\* marks the error of every required field that is blank after trimming
validateFields(s, m, o) ==
  [s EXCEPT
     !.error[m] =
       [i \in 1..Len(o.fields) |->
          IF o.fields[i].required /\ Trim(s.input[m][i]) = << >>
          THEN TRUE ELSE @[i]]]

\* a validation that does not trim
isValidUntrimmed(s, m, o) ==
  \A i \in 1..Len(o.fields) :
    o.fields[i].required => s.input[m][i] # << >>

isValid(s, m, o) ==
  \A i \in 1..Len(o.fields) :
    o.fields[i].required => Trim(s.input[m][i]) # << >>

FieldNames(o) == {o.fields[i].name : i \in 1..Len(o.fields)}

\* a gatherValues that leaves out the controls that are empty
gatherValuesFilled(s, m, o) ==
  [n \in {o.fields[i].name : i \in {j \in 1..Len(o.fields) : s.input[m][j] # << >>}} |->
     LET last_i == CHOOSE i \in 1..Len(o.fields) :
                     /\ o.fields[i].name = n
                     /\ \A j \in 1..Len(o.fields) : o.fields[j].name = n => j <= i
     IN s.input[m][last_i]]

\* a gatherValues that trims what it reads
gatherValuesTrimmed(s, m, o) ==
  [n \in FieldNames(o) |->
     LET last_i == CHOOSE i \in 1..Len(o.fields) :
                     /\ o.fields[i].name = n
                     /\ \A j \in 1..Len(o.fields) : o.fields[j].name = n => j <= i
     IN Trim(s.input[m][last_i])]

\* values[field.name] = input.value for each field in order: the last
\* field of a name wins
gatherValues(s, m, o) ==
  [n \in FieldNames(o) |->
     LET last_i == CHOOSE i \in 1..Len(o.fields) :
                     /\ o.fields[i].name = n
                     /\ \A j \in 1..Len(o.fields) : o.fields[j].name = n => j <= i
     IN s.input[m][last_i]]

\* a resolveAndClose that validates the form on cancel too
resolveAndCloseValidating(s, req, m, confirmed) ==
  LET o == openOptions(req[m])
      hasPending == Len(s.modalQueue) > 0
      restore(t) ==
        IF ~hasPending
        THEN [t EXCEPT !.focus = s.previousActiveElement[m]]
        ELSE t
  IN IF hasForm(o)
     THEN IF ~isValid(s, m, o)
          THEN validateFields(s, m, o)
          ELSE restore(closeModal(validateFields(s, m, o), req,
                 IF confirmed
                 THEN [confirmed |-> TRUE, values |-> gatherValues(s, m, o)]
                 ELSE [confirmed |-> FALSE]))
     ELSE restore(closeModal(s, req, [confirmed |-> confirmed]))

\* a resolveAndClose that calls the resolve of its own promise
resolveAndCloseOwn(s, req, m, confirmed) ==
  LET o == openOptions(req[m])
      hasPending == Len(s.modalQueue) > 0
      own(result) == closeModal(resolve(s, m, result), req, result)
      restore(t) ==
        IF ~hasPending
        THEN [t EXCEPT !.focus = s.previousActiveElement[m]]
        ELSE t
  IN IF confirmed /\ hasForm(o)
     THEN IF ~isValid(s, m, o)
          THEN validateFields(s, m, o)
          ELSE restore(own([confirmed |-> TRUE, values |-> gatherValues(s, m, o)]))
     ELSE restore(own([confirmed |-> confirmed]))

\* a resolveAndClose that restores the focus whatever is queued
resolveAndCloseRestoring(s, req, m, confirmed) ==
  LET o == openOptions(req[m])
      restore(t) == [t EXCEPT !.focus = s.previousActiveElement[m]]
  IN IF confirmed /\ hasForm(o)
     THEN IF ~isValid(s, m, o)
          THEN validateFields(s, m, o)
          ELSE restore(closeModal(validateFields(s, m, o), req,
                                  [confirmed |-> TRUE, values |-> gatherValues(s, m, o)]))
     ELSE restore(closeModal(s, req, [confirmed |-> confirmed]))

\* resolveAndClose of request m's start closure
resolveAndClose(s, req, m, confirmed) ==
  LET o == openOptions(req[m])
      hasPending == Len(s.modalQueue) > 0
      restore(t) ==
        IF ~hasPending
        THEN [t EXCEPT !.focus = s.previousActiveElement[m]]
        ELSE t
  IN IF confirmed /\ hasForm(o)
     THEN IF ~isValid(s, m, o)
          THEN validateFields(s, m, o)
          ELSE restore(closeModal(validateFields(s, m, o), req,
                                  [confirmed |-> TRUE, values |-> gatherValues(s, m, o)]))
     ELSE restore(closeModal(s, req, [confirmed |-> confirmed]))

\* ---------------------------------------------------------------- actions
\* an openModal that never queues
openModalAtOnce(s, m, call) == start(s, m, call)

\* an openModal that queues the start closure ahead of the waiting ones
openModalFront(s, m, call) ==
  IF s.activeModal # 0
  THEN [s EXCEPT !.modalQueue = <<m>> \o @]
  ELSE start(s, m, call)

\* openModal: start at once, or queue the start closure behind the active modal
openModal(s, m, call) ==
  IF s.activeModal # 0
  THEN [s EXCEPT !.modalQueue = Append(@, m)]
  ELSE start(s, m, call)

\* a call of showAlertModal, showConfirmModal or showFormModal
OpenFrom(calls) ==
  /\ nextId < MaxRequests
  /\ \E call \in calls :
       LET m == nextId + 1
       IN /\ nextId' = m
          /\ request' = [request EXCEPT ![m] = call]
          /\ Becomes(openModal(State, m, call))
          /\ last' = [ev |-> "open", id |-> m]
          /\ UNCHANGED app

Open == OpenFrom(Requests)

Attached(m) == m \in host

\* click on the confirm button: its click listener, or the form's submit
ConfirmClick(m) ==
  /\ Becomes(resolveAndClose(State, request, m, TRUE))
  /\ last' = [ev |-> "confirm", id |-> m]
  /\ UNCHANGED <<nextId, request, app>>

\* click on the cancel button, when one is rendered
CancelClick(m) ==
  /\ hasCancelButton(openOptions(request[m]))
  /\ Becomes(resolveAndClose(State, request, m, FALSE))
  /\ last' = [ev |-> "cancel", id |-> m]
  /\ UNCHANGED <<nextId, request, app>>

\* click on the backdrop: the overlay has a listener only when dismissible
BackdropClick(m) ==
  /\ IF dismissible(openOptions(request[m]))
     THEN Becomes(resolveAndClose(State, request, m, FALSE))
     ELSE UNCHANGED coord
  /\ last' = [ev |-> "backdrop", id |-> m]
  /\ UNCHANGED <<nextId, request, app>>

\* Escape pressed inside the panel: handleKeyDown, while it is attached
EscapeKey(m) ==
  /\ IF m \in listeners /\ dismissible(openOptions(request[m]))
     THEN Becomes(resolveAndClose(State, request, m, FALSE))
     ELSE UNCHANGED coord
  /\ last' = [ev |-> "escape", id |-> m]
  /\ UNCHANGED <<nextId, request, app>>

\* an input listener that validates the control again
InputEventRevalidating(m) ==
  /\ \E i \in 1..Len(input[m]) :
       \E v \in Choices(openOptions(request[m]).fields[i]) :
       /\ input' = [input EXCEPT ![m][i] = v]
       /\ error' = [error EXCEPT ![m][i] =
                      openOptions(request[m]).fields[i].required /\ Trim(v) = << >>]
  /\ last' = [ev |-> "input", id |-> m]
  /\ UNCHANGED <<nextId, request, activeModal, activeResolver, modalQueue,
                 releaseFocusTrap, host, scrollLocked, listeners, focus,
                 previousActiveElement, resolveCalls, promise, startOrder,
                 resolveOrder, atResolve, atActivate, app>>

\* an input event on a control: the value changes and the error is hidden
InputEvent(m) ==
  /\ \E i \in 1..Len(input[m]) :
       \E v \in Choices(openOptions(request[m]).fields[i]) :
       /\ input' = [input EXCEPT ![m][i] = v]
       /\ error' = [error EXCEPT ![m][i] = FALSE]
  /\ last' = [ev |-> "input", id |-> m]
  /\ UNCHANGED <<nextId, request, activeModal, activeResolver, modalQueue,
                 releaseFocusTrap, host, scrollLocked, listeners, focus,
                 previousActiveElement, resolveCalls, promise, startOrder,
                 resolveOrder, atResolve, atActivate, app>>

\* the user acts on the modal on screen
Confirm == \E m \in DOMAIN request : Attached(m) /\ ConfirmClick(m)
Cancel == \E m \in DOMAIN request : Attached(m) /\ CancelClick(m)
Backdrop == \E m \in DOMAIN request : Attached(m) /\ BackdropClick(m)
Escape == \E m \in DOMAIN request : Attached(m) /\ EscapeKey(m)
Input == \E m \in DOMAIN request : Attached(m) /\ InputEvent(m)

Next == Open \/ Confirm \/ Cancel \/ Backdrop \/ Escape \/ Input

Spec == Init /\ [][Next]_vars

\* The user eventually performs a terminal action on whichever modal is on
\* screen: a click on its cancel button, Escape or a backdrop click when it
\* is dismissible, or a confirm that passes validation (one that leaves no
\* error shown).  A modal that stayed on screen for ever would see such
\* actions again and again.
TerminalDone(m) ==
  /\ last.id = m
  /\ \/ last.ev = "cancel"
     \/ last.ev \in {"escape", "backdrop"} /\ request[m].options.dismissible # JsFalse
     \/ last.ev = "confirm" /\ \A i \in 1..Len(error[m]) : ~error[m][i]

UserActs == \A m \in Ids : []<>(activeModal # m \/ TerminalDone(m))

\* the calls drawn where progress is checked: one of each entry point, and
\* the form whose only way out is a confirm that passes validation
LiveRequests ==
  { Call("alert", Options(Undefined, Undefined, FALSE, << >>)),
    Call("confirm", Options(Null, JsFalse, FALSE, << >>)),
    Call("form", Options(Undefined, Undefined, TRUE,
           <<Field("name", TRUE, UndefinedValue)>>)),
    Call("form", Options(Null, JsFalse, TRUE, <<Field("name", TRUE, <<" ">>)>>)) }

OpenLive == OpenFrom(LiveRequests)

NextLive == OpenLive \/ Confirm \/ Cancel \/ Backdrop \/ Escape \/ Input

SpecLive == Init /\ [][NextLive]_vars /\ UserActs

\* ------------------------------------------------- handlers of removed modals
\* A handler wired to a modal that has closed is run again (by a stale timer,
\* or by a click() on a button that was kept). The controls of the removed
\* panel hold any values. Its keydown listener was removed on close, so a
\* key event on the removed panel reaches no handler.
Started(m) == \E i \in 1..Len(startOrder) : startOrder[i] = m
Removed(m) == Started(m) /\ ~Attached(m)

ControlValues(m) ==
  LET o == openOptions(request[m])
  IN IF hasForm(o) THEN [1..Len(o.fields) -> Values] ELSE {<< >>}

withControls(s, m, vals) ==
  [s EXCEPT !.input[m] = vals, !.error[m] = [i \in 1..Len(vals) |-> FALSE]]

StaleHandler(m, ev, vals) ==
  /\ ev = "cancel" => hasCancelButton(openOptions(request[m]))
  /\ ev = "backdrop" => dismissible(openOptions(request[m]))
  /\ Becomes(dropControls(
               resolveAndClose(withControls(State, m, vals), request, m, ev = "confirm"),
               m))
  /\ last' = [ev |-> "stale " \o ev, id |-> m]
  /\ UNCHANGED <<nextId, request, app>>

Stale ==
  \E m \in Ids :
    /\ Removed(m)
    /\ \/ \E vals \in ControlValues(m) : StaleHandler(m, "confirm", vals)
       \/ \E ev \in {"cancel", "backdrop"} :
            StaleHandler(m, ev, CHOOSE vals \in ControlValues(m) : TRUE)

\* the calls drawn where handlers of removed modals fire: one of each entry
\* point, with and without a cancel button, dismissible and not
StaleRequests ==
  { Call("alert", Options(Undefined, Undefined, FALSE, << >>)),
    Call("confirm", Options(Null, JsFalse, FALSE, << >>)),
    Call("form", Options(Undefined, Undefined, TRUE,
           <<Field("name", TRUE, UndefinedValue)>>)) }

OpenStale == OpenFrom(StaleRequests)

NextStale ==
  OpenStale \/ Confirm \/ Cancel \/ Backdrop \/ Escape \/ Input \/ Stale

SpecStale == Init /\ [][NextStale]_vars

\* ------------------------------------------------------------------- forms
\* the calls drawn where validation is looked at: a form of two required
\* fields, one blank and one holding a space at first, and an optional one
FormRequests ==
  { Call("form", Options(Undefined, Undefined, TRUE,
           <<Field("name", TRUE, UndefinedValue), Field("owner", TRUE, <<" ">>),
             Field("note", FALSE, UndefinedValue)>>)) }

OpenForms == OpenFrom(FormRequests)

NextForms == OpenForms \/ Confirm \/ Cancel \/ Backdrop \/ Escape \/ Input

SpecForms == Init /\ [][NextForms]_vars

\* the calls drawn where the field types are looked at: one form for each
\* type, with and without an initialValue, one that is not among the options
\* and one that is no date
FieldRequests ==
  { Call("form", Options(Undefined, Undefined, TRUE,
           <<TypedField("name", "text", FALSE, << >>, UndefinedValue)>>)),
    Call("form", Options(Undefined, Undefined, TRUE,
           <<TypedField("note", "textarea", FALSE, << >>, <<" ">>)>>)),
    Call("form", Options(Undefined, Undefined, TRUE,
           <<SelectField("status", FALSE, << <<"a">>, <<"b">> >>, UndefinedValue)>>)),
    Call("form", Options(Undefined, Undefined, TRUE,
           <<SelectField("status", FALSE, << <<"a">>, <<"b">> >>, <<"b">>)>>)),
    Call("form", Options(Undefined, Undefined, TRUE,
           <<SelectField("status", FALSE, << <<"a">>, <<"b">> >>, <<"c">>)>>)),
    Call("form", Options(Undefined, Undefined, TRUE,
           <<TypedField("dueDate", "date", FALSE, << >>, LeapDay)>>)),
    Call("form", Options(Undefined, Undefined, TRUE,
           <<TypedField("dueDate", "date", FALSE, << >>, NoSuchDay)>>)) }

OpenFields == OpenFrom(FieldRequests)

\* the user fills in and confirms
NextFields == OpenFields \/ Confirm \/ Input

SpecFields == Init /\ [][NextFields]_vars

\* ------------------------------------------------------ keyboard navigation
\* what the browser does with a Tab the handler did not prevent: the focus
\* moves to the next (with Shift the previous) focusable control, which past
\* either end of the panel is a control of the page
defaultTab(s, m, n, shiftKey) ==
  LET i == s.focus[2]
      j == IF shiftKey THEN i - 1 ELSE i + 1
  IN [s EXCEPT !.focus = IF j \in 1..n THEN <<m, j>> ELSE PageControl]

\* a handleKeyDown that leaves every Tab to the browser
handleKeyDownTabUntrapped(s, m, o, shiftKey) ==
  defaultTab(s, m, Len(getFocusableElements(o)), shiftKey)

\* the Tab branch of handleKeyDown: first and last are taken from the list
\* of focusable controls computed when the trap was activated
handleKeyDownTab(s, m, o, shiftKey) ==
  LET n == Len(getFocusableElements(o))
      first == <<m, 1>>
      lastControl == <<m, n>>
  IN IF shiftKey
     THEN IF s.focus = first
          THEN [s EXCEPT !.focus = lastControl]
          ELSE defaultTab(s, m, n, shiftKey)
     ELSE IF s.focus = lastControl
          THEN [s EXCEPT !.focus = first]
          ELSE defaultTab(s, m, n, shiftKey)

\* Tab or Shift+Tab pressed with the focus on a control of the panel
TabKey(m, shiftKey) ==
  /\ focus[1] = m
  /\ m \in listeners
  /\ Becomes(handleKeyDownTab(State, m, openOptions(request[m]), shiftKey))
  /\ last' = [ev |-> IF shiftKey THEN "shift tab" ELSE "tab", id |-> m]
  /\ UNCHANGED <<nextId, request, app>>

Tab == \E m \in Ids : Attached(m) /\ TabKey(m, FALSE)
ShiftTab == \E m \in Ids : Attached(m) /\ TabKey(m, TRUE)

\* the calls drawn where Tab is pressed: panels of one, two and three
\* focusable controls
KeysRequests ==
  { Call("alert", Options(Undefined, Undefined, FALSE, << >>)),
    Call("confirm", Options(Undefined, Undefined, FALSE, << >>)),
    Call("form", Options(Undefined, Undefined, TRUE,
           <<Field("name", TRUE, UndefinedValue)>>)) }

OpenKeys == OpenFrom(KeysRequests)

NextKeys ==
  OpenKeys \/ Confirm \/ Cancel \/ Backdrop \/ Escape \/ Input \/ Tab \/ ShiftTab

SpecKeys == Init /\ [][NextKeys]_vars

\* ------------------------------------------------------------ the todo store
Todo(id, status, categoryId) == [id |-> id, status |-> status, categoryId |-> categoryId]

\* the stores a session can have built before a viewer flow begins: none, or
\* two categories of which the first holds a completed and a pending todo
Stores ==
  { EmptyStore,
    [todos |-> <<Todo("t1", "completed", <<"1">>), Todo("t2", "pending", <<"1">>)>>,
     categories |-> << <<"1">>, <<"2">> >>,
     generated |-> 0] }

TodoIds == {"t1", "t2"}

getAllTodos(st) == st.todos

getAllCategories(st) == st.categories

NotCompleted(todo) == todo.status # "completed"

deleteTodo(st, id) ==
  [st EXCEPT !.todos = SelectSeq(@, LAMBDA todo : todo.id # id)]

\* true if a todo was deleted
deleteTodoReturn(st, id) == Len(deleteTodo(st, id).todos) < Len(st.todos)

clearCompletedTodos(st) ==
  [st EXCEPT !.todos = SelectSeq(@, NotCompleted)]

deleteCategory(st, id) ==
  [st EXCEPT !.categories = SelectSeq(@, LAMBDA category : category # id)]

\* generateId: a new id at every call
NewTodoIds == <<"t3", "t4", "t5", "t6">>

NewCategoryIds == << <<"3">>, <<"4">>, <<"5">>, <<"6">> >>

createTodo(st, status, categoryId) ==
  [st EXCEPT !.todos = Append(@, Todo(NewTodoIds[st.generated + 1], status, categoryId)),
             !.generated = @ + 1]

addCategory(st) ==
  [st EXCEPT !.categories = Append(@, NewCategoryIds[st.generated + 1]),
             !.generated = @ + 1]

\* updateTodo with a status and a categoryId among the updates
updateTodo(st, id, status, categoryId) ==
  [st EXCEPT !.todos =
     [i \in 1..Len(st.todos) |->
        IF st.todos[i].id = id
        THEN [st.todos[i] EXCEPT !.status = status, !.categoryId = categoryId]
        ELSE st.todos[i]]]

\* ------------------------------------------------------- the viewer flows
\* An async handler runs up to its next await in one step. What it does once
\* the awaited modal resolves is the continuation of that request: the
\* handler it belongs to, the place it resumes at and the local it kept.
Cont(kind, pc, arg) == [kind |-> kind, pc |-> pc, arg |-> arg]

\* what a run of a handler did: the store it left, the modal it opened (if
\* any) and the continuation that awaits it
Step(st, call, next) == [store |-> st, call |-> call, next |-> next]

Return(st) == Step(st, NoCall, NoFlow)

\* an alert is the last thing a flow awaits: it returns when it resolves
Notice(st, kind) ==
  Step(st, Call("alert", Options(Undefined, Undefined, FALSE, << >>)),
       Cont(kind, "return", << >>))

DangerConfirm(d) == Call("confirm", Options("Cancel", d, FALSE, << >>))

\* a handleDeleteTodo that deletes whatever the confirmation resolved to
handleDeleteTodoUnasked(st, k, result) ==
  IF k.pc = "start"
  THEN IF \A i \in 1..Len(getAllTodos(st)) : getAllTodos(st)[i].id # k.arg[1]
       THEN Notice(st, "handleDeleteTodo")
       ELSE Step(st, DangerConfirm(Undefined), Cont("handleDeleteTodo", "confirmed", k.arg))
  ELSE Notice(deleteTodo(st, k.arg[1]), "handleDeleteTodo")

handleDeleteTodo(st, k, result) ==
  IF k.pc = "start"
  THEN IF \A i \in 1..Len(getAllTodos(st)) : getAllTodos(st)[i].id # k.arg[1]
       THEN Notice(st, "handleDeleteTodo")
       ELSE Step(st, DangerConfirm(Undefined), Cont("handleDeleteTodo", "confirmed", k.arg))
  ELSE IF ~showConfirmModalReturn(result)
       THEN Return(st)
       ELSE Notice(deleteTodo(st, k.arg[1]), "handleDeleteTodo")

handleClearCompleted(st, k, result) ==
  IF k.pc = "start"
  THEN IF \A i \in 1..Len(getAllTodos(st)) : getAllTodos(st)[i].status # "completed"
       THEN Return(st)
       ELSE Step(st, DangerConfirm(Undefined), Cont("handleClearCompleted", "confirmed", << >>))
  ELSE IF ~showConfirmModalReturn(result)
       THEN Return(st)
       ELSE Notice(clearCompletedTodos(st), "handleClearCompleted")

\* deleteCategoryButton.onclick
deleteCategoryClick(st, k, result) ==
  CASE k.pc = "start" ->
         LET categories == getAllCategories(st)
         IN IF Len(categories) = 0
            THEN Notice(st, "deleteCategoryClick")
            ELSE Step(st,
                      Call("form", Options("Back", Undefined, TRUE,
                             <<SelectField("categoryId", TRUE, categories, categories[1])>>)),
                      Cont("deleteCategoryClick", "selected", categories))
    [] k.pc = "selected" ->
         LET selection == showFormModalReturn(result)
             categories == k.arg
         IN IF selection = NullReturn
            THEN Return(st)
            ELSE IF \A i \in 1..Len(categories) : categories[i] # selection.values["categoryId"]
                 THEN Notice(st, "deleteCategoryClick")
                 ELSE LET category == selection.values["categoryId"]
                      IN IF \E i \in 1..Len(getAllTodos(st)) :
                              getAllTodos(st)[i].categoryId = category
                         THEN Notice(st, "deleteCategoryClick")
                         ELSE Step(st, DangerConfirm(JsFalse),
                                   Cont("deleteCategoryClick", "confirmed", <<category>>))
    [] OTHER ->
         IF ~showConfirmModalReturn(result)
         THEN Return(st)
         ELSE Notice(deleteCategory(st, k.arg[1]), "deleteCategoryClick")

\* addCategoryButton.onclick
addCategoryClick(st, k, result) ==
  IF k.pc = "start"
  THEN Step(st,
            Call("form", Options(Undefined, Undefined, TRUE,
                   <<Field("categoryName", TRUE, UndefinedValue)>>)),
            Cont("addCategoryClick", "submitted", << >>))
  ELSE LET submitted == showFormModalReturn(result)
       IN IF submitted = NullReturn
          THEN Return(st)
          ELSE IF Trim(submitted.values["categoryName"]) = << >>
               THEN Notice(st, "addCategoryClick")
               ELSE Notice(addCategory(st), "addCategoryClick")

\* a week from today, as toISOString().split('T')[0] gives it
defaultDueDate == LeapDay

DateField(n, r, i) == TypedField(n, "date", r, << >>, i)

\* addTodoButton.onclick
addTodoClick(st, k, result) ==
  IF k.pc = "start"
  THEN LET categories == getAllCategories(st)
       IN IF Len(categories) = 0
          THEN Notice(st, "addTodoClick")
          ELSE Step(st,
                    Call("form", Options(Undefined, Undefined, TRUE,
                           <<Field("name", TRUE, UndefinedValue),
                             SelectField("categoryId", TRUE, categories, categories[1]),
                             DateField("dueDate", TRUE, defaultDueDate)>>)),
                    Cont("addTodoClick", "submitted", << >>))
  ELSE LET submitted == showFormModalReturn(result)
       IN IF submitted = NullReturn
          THEN Return(st)
          ELSE IF Trim(submitted.values["name"]) = << >>
               THEN Notice(st, "addTodoClick")
               ELSE IF ~IsDateString(submitted.values["dueDate"])
                    THEN Notice(st, "addTodoClick")
                    ELSE Notice(createTodo(st, "pending", submitted.values["categoryId"]),
                                "addTodoClick")

Statuses == <<"pending", "in-progress", "completed">>

\* handleEditTodo; the name of a stored todo is not blank
handleEditTodo(st, k, result) ==
  IF k.pc = "start"
  THEN IF \A i \in 1..Len(getAllTodos(st)) : getAllTodos(st)[i].id # k.arg[1]
       THEN Notice(st, "handleEditTodo")
       ELSE LET todo == CHOOSE t \in {getAllTodos(st)[i] : i \in 1..Len(getAllTodos(st))} :
                          t.id = k.arg[1]
                categories == getAllCategories(st)
            IN IF Len(categories) = 0
               THEN Notice(st, "handleEditTodo")
               ELSE Step(st,
                         Call("form", Options(Undefined, Undefined, TRUE,
                                <<Field("name", TRUE, <<"a">>),
                                  SelectField("status", TRUE,
                                              [i \in 1..Len(Statuses) |-> <<Statuses[i]>>],
                                              <<todo.status>>),
                                  SelectField("categoryId", TRUE, categories, todo.categoryId),
                                  DateField("dueDate", TRUE, LeapDay)>>)),
                         Cont("handleEditTodo", "submitted", k.arg))
  ELSE LET formValues == showFormModalReturn(result)
       IN IF formValues = NullReturn
          THEN Return(st)
          ELSE IF Trim(formValues.values["name"]) = << >>
               THEN Notice(st, "handleEditTodo")
               ELSE IF \A i \in 1..Len(Statuses) : <<Statuses[i]>> # formValues.values["status"]
                    THEN Notice(st, "handleEditTodo")
                    ELSE IF ~IsDateString(formValues.values["dueDate"])
                         THEN Notice(st, "handleEditTodo")
                         ELSE Notice(updateTodo(st, k.arg[1],
                                                formValues.values["status"][1],
                                                formValues.values["categoryId"]),
                                     "handleEditTodo")

\* the handler a continuation belongs to, resumed with the modal's outcome
Run(st, k, result) ==
  CASE k.kind = "handleDeleteTodo" -> handleDeleteTodo(st, k, result)
    [] k.kind = "handleClearCompleted" -> handleClearCompleted(st, k, result)
    [] k.kind = "addCategoryClick" -> addCategoryClick(st, k, result)
    [] k.kind = "addTodoClick" -> addTodoClick(st, k, result)
    [] k.kind = "handleEditTodo" -> handleEditTodo(st, k, result)
    [] OTHER -> deleteCategoryClick(st, k, result)

Waiting(m) == continuation[m].pc \in {"selected", "confirmed", "submitted"}

\* the promise has settled and its continuation has not run yet
Resumable(m) == Waiting(m) /\ promise[m] # Pending

\* continuations are microtasks: they run before the next event is handled
Idle == \A m \in DOMAIN continuation : ~Resumable(m)

\* applies what a run of a handler did; by is the request whose continuation
\* ran, 0 for a handler that was just called; max bounds the modals opened
ApplyUpTo(step, by, max) ==
  /\ UNCHANGED ai
  /\ store' = step.store
  /\ IF step.call.kind = "none"
     THEN /\ continuation' =
               [m \in DOMAIN continuation |->
                  IF m = by THEN Cont(continuation[m].kind, "done", << >>)
                  ELSE continuation[m]]
          /\ UNCHANGED <<nextId, request, coord>>
     ELSE /\ nextId < max
          /\ LET new == nextId + 1
             IN /\ nextId' = new
                /\ request' = [request EXCEPT ![new] = step.call]
                /\ Becomes(openModal(State, new, step.call))
                /\ continuation' =
                     [m \in DOMAIN continuation |->
                        IF m = new THEN step.next
                        ELSE IF m = by THEN Cont(continuation[m].kind, "done", << >>)
                        ELSE continuation[m]]

Apply(step, by) == ApplyUpTo(step, by, MaxRequests)

\* a click on the delete button of a todo, on "clear completed", on "delete
\* category"
DeleteTodoClick ==
  /\ Idle
  /\ \E todoId \in TodoIds :
       Apply(handleDeleteTodo(store, Cont("handleDeleteTodo", "start", <<todoId>>), Pending), 0)
  /\ last' = [ev |-> "handleDeleteTodo", id |-> 0]

ClearCompletedClick ==
  /\ Idle
  /\ Apply(handleClearCompleted(store, Cont("handleClearCompleted", "start", << >>), Pending), 0)
  /\ last' = [ev |-> "handleClearCompleted", id |-> 0]

DeleteCategoryClick ==
  /\ Idle
  /\ Apply(deleteCategoryClick(store, Cont("deleteCategoryClick", "start", << >>), Pending), 0)
  /\ last' = [ev |-> "deleteCategoryClick", id |-> 0]

\* the continuation of a resolved request runs
Resume ==
  \E m \in DOMAIN request :
    /\ Resumable(m)
    /\ Apply(Run(store, continuation[m], promise[m]), m)
    /\ last' = [ev |-> "resume", id |-> m]

FlowConfirm == Idle /\ Confirm
FlowCancel == Idle /\ Cancel
FlowBackdrop == Idle /\ Backdrop
FlowEscape == Idle /\ Escape
FlowInput == Idle /\ Input

InitFlows == InitCoordinator /\ store \in Stores

NextFlows ==
  \/ DeleteTodoClick \/ ClearCompletedClick \/ DeleteCategoryClick \/ Resume
  \/ FlowConfirm \/ FlowCancel \/ FlowBackdrop \/ FlowEscape \/ FlowInput

SpecFlows == InitFlows /\ [][NextFlows]_vars

\* ------------------------------------------------- the flows side by side
\* The handlers of main.ts await the store between their modals (lines 179,
\* 265, 306, 327), with no overlay on the page meanwhile: a second handler
\* can start before the first one has ended, and their modals queue up.
MaxSideBySide == 2

\* a handler that has not ended awaits a modal that has not resolved
Running == {m \in DOMAIN promise : m <= nextId /\ promise[m] = Pending}

Startable == Idle /\ Cardinality(Running) < MaxSideBySide

AddCategoryClick ==
  /\ Startable
  /\ ApplyUpTo(addCategoryClick(store, Cont("addCategoryClick", "start", << >>), Pending),
               0, MaxFlowRequests)
  /\ last' = [ev |-> "addCategoryClick", id |-> 0]

AddTodoClick ==
  /\ Startable
  /\ ApplyUpTo(addTodoClick(store, Cont("addTodoClick", "start", << >>), Pending),
               0, MaxFlowRequests)
  /\ last' = [ev |-> "addTodoClick", id |-> 0]

EditTodoClick ==
  /\ Startable
  /\ \E todoId \in TodoIds :
       ApplyUpTo(handleEditTodo(store, Cont("handleEditTodo", "start", <<todoId>>), Pending),
                 0, MaxFlowRequests)
  /\ last' = [ev |-> "handleEditTodo", id |-> 0]

RemoveCategoryClick ==
  /\ Startable
  /\ ApplyUpTo(deleteCategoryClick(store, Cont("deleteCategoryClick", "start", << >>), Pending),
               0, MaxFlowRequests)
  /\ last' = [ev |-> "deleteCategoryClick", id |-> 0]

\* the continuation of a resolved request runs
ResumeFlow ==
  \E m \in DOMAIN request :
    /\ Resumable(m)
    /\ ApplyUpTo(Run(store, continuation[m], promise[m]), m, MaxFlowRequests)
    /\ last' = [ev |-> "resume", id |-> m]

\* the user types a name or picks a category
FlowPick ==
  /\ Idle
  /\ \E m \in DOMAIN request :
       /\ Attached(m)
       /\ InputEvent(m)
       /\ \A i \in 1..Len(input[m]) :
            input'[m][i] # input[m][i] =>
              LET field == openOptions(request[m]).fields[i]
              IN \/ field.name = "categoryId"
                 \/ field.type = "text" /\ input'[m][i] = <<"a">>

InitIntegrity == InitOver(AllIds) /\ store = CHOOSE st \in Stores : st # EmptyStore

NextIntegrity ==
  \/ AddCategoryClick \/ AddTodoClick \/ EditTodoClick \/ RemoveCategoryClick
  \/ ResumeFlow \/ FlowConfirm \/ FlowCancel \/ FlowPick

SpecIntegrity == InitIntegrity /\ [][NextIntegrity]_vars

\* ------------------------------------------------------------ chat client
MaxSends == 3
MaxReads == 2
MaxLines == 2

\* a line of the response body: whether it starts with "data: ", whether
\* JSON.parse accepts the rest, and which fields of the parsed event are truthy
Line(d, p, e, dn, c) ==
  [data |-> d, parses |-> p, error |-> e, done |-> dn, content |-> c]

Lines ==
  { Line(FALSE, FALSE, FALSE, FALSE, FALSE),   \* the blank line between events
    Line(TRUE, FALSE, FALSE, FALSE, FALSE),    \* a part of an event cut by a read
    Line(TRUE, TRUE, TRUE, FALSE, FALSE),      \* {"error": "..."}
    Line(TRUE, TRUE, FALSE, TRUE, FALSE),      \* {"done": true}
    Line(TRUE, TRUE, FALSE, FALSE, TRUE),      \* {"content": "..."}
    Line(TRUE, TRUE, FALSE, FALSE, FALSE) }    \* {"content": ""}

\* what one reader.read() can deliver: chunk.split('\n')
Chunks ==
  UNION {[1..n -> Lines] : n \in 1..MaxLines}

\* enableInput
enableInput(c) == [c EXCEPT !.disabled = FALSE, !.isStreaming = FALSE]

\* the three callbacks handleSendMessage passes to streamChatAPI
onChunk(c) == [c EXCEPT !.calls = Append(@, "onChunk")]

onError(c) == enableInput([c EXCEPT !.calls = Append(@, "onError")])

onComplete(c) == enableInput([c EXCEPT !.calls = Append(@, "onComplete")])

\* the loop over the lines of one chunk, from line i on
RECURSIVE parseLines(_, _, _)
parseLines(c, lines, i) ==
  IF i > Len(lines) THEN c
  ELSE LET line == lines[i]
       IN IF ~line.data \/ ~line.parses THEN parseLines(c, lines, i + 1)
          ELSE IF line.error THEN [onError(c) EXCEPT !.pc = "returned"]
          ELSE IF line.done THEN [onComplete(c) EXCEPT !.pc = "returned"]
          ELSE IF line.content THEN parseLines(onChunk(c), lines, i + 1)
          ELSE parseLines(c, lines, i + 1)

\* the catch block of streamChatAPI
catchError(c) == [onError(c) EXCEPT !.pc = "returned"]

\* reader.read() said done: the loop is left and the function returns
streamEnd(c) == [c EXCEPT !.pc = "returned"]

\* handleSendMessage with content in the input, up to the await
handleSendMessage(c, content) ==
  IF c.isStreaming THEN c
  ELSE IF Trim(content) = << >> THEN c
  ELSE [c EXCEPT !.messages = @ \o <<"user", "assistant">>,
                 !.isStreaming = TRUE,
                 !.disabled = TRUE,
                 !.pc = "fetch",
                 !.calls = << >>,
                 !.reads = 0]

\* a click on Send or Enter in the input
SendMessage ==
  /\ chat.sends < MaxSends
  /\ \E content \in Values :
       chat' = [handleSendMessage(chat, content) EXCEPT !.sends = chat.sends + 1]
  /\ UNCHANGED <<todoVars, sse, imageGen, vision>>

\* fetch settles: rejected, a status that is not ok, no body, or a body
FetchSettles ==
  /\ chat.pc = "fetch"
  /\ \E outcome \in {"rejected", "not ok", "no body", "ok"} :
       chat' = IF outcome = "ok" THEN [chat EXCEPT !.pc = "read"]
               ELSE catchError(chat)
  /\ UNCHANGED <<todoVars, sse, imageGen, vision>>

\* reader.read() delivers a chunk
ReadChunk ==
  /\ chat.pc = "read"
  /\ chat.reads < MaxReads
  /\ \E chunk \in Chunks :
       chat' = parseLines([chat EXCEPT !.reads = @ + 1], chunk, 1)
  /\ UNCHANGED <<todoVars, sse, imageGen, vision>>

\* reader.read() reports the end of the body
ReadDone ==
  /\ chat.pc = "read"
  /\ chat' = streamEnd(chat)
  /\ UNCHANGED <<todoVars, sse, imageGen, vision>>

\* reader.read() rejects: the connection failed
ReadFails ==
  /\ chat.pc = "read"
  /\ chat' = catchError(chat)
  /\ UNCHANGED <<todoVars, sse, imageGen, vision>>

NextChat == SendMessage \/ FetchSettles \/ ReadChunk \/ ReadDone \/ ReadFails

SpecChat == Init /\ [][NextChat]_vars

\* ------------------------------------------------------------ chat server
MaxPosts == 2
MaxMessages == 2
MaxYields == 3

Roles == {"user", "assistant", "system"}

\* an element of the messages array: null, or an object with a role ("" for
\* none) and a content that is truthy or not
Message(n, r, c) == [null |-> n, role |-> r, content |-> c]

Messages ==
  { Message(TRUE, "", FALSE), Message(FALSE, "user", TRUE),
    Message(FALSE, "", TRUE), Message(FALSE, "user", FALSE),
    Message(FALSE, "robot", TRUE) }

\* req.body.messages: missing, not an array, or an array
Bodies ==
  { [present |-> FALSE, isArray |-> FALSE, items |-> << >>],
    [present |-> TRUE, isArray |-> FALSE, items |-> << >>] }
  \cup { [present |-> TRUE, isArray |-> TRUE, items |-> items] :
           items \in UNION {[1..n -> Messages] : n \in 0..MaxMessages} }

\* res.status(code).json(...)
json(r, code) ==
  [r EXCEPT !.status = code, !.headersSent = TRUE, !.json = TRUE,
            !.ended = TRUE, !.pc = "returned"]

\* res.write of an event; the first write sends the headers
write(r, event) ==
  [r EXCEPT !.events = Append(@, event),
            !.headersSent = TRUE,
            !.status = IF r.headersSent THEN @ ELSE 200]

\* res.end()
end(r) == [r EXCEPT !.ended = TRUE, !.headersSent = TRUE,
                    !.status = IF r.headersSent THEN @ ELSE 200,
                    !.pc = "returned"]

\* the outer catch block
catchOuter(r) ==
  IF ~r.headersSent THEN json(r, 500)
  ELSE end(write(r, "error"))

\* the loop over the messages, from message i on: a 400 for the first one
\* that lacks a role or a content or has a role that is not known; reading
\* msg.role of null throws
RECURSIVE validateMessages(_, _)
validateMessages(r, i) ==
  IF i > Len(r.messages.items) THEN [r EXCEPT !.pc = "streaming"]
  ELSE LET msg == r.messages.items[i]
       IN IF msg.null THEN catchOuter(r)
          ELSE IF msg.role = "" \/ ~msg.content THEN json(r, 400)
          ELSE IF msg.role \notin Roles THEN json(r, 400)
          ELSE validateMessages(r, i + 1)

\* streamChat up to its first await
streamChat(r, messages) ==
  LET req == [r EXCEPT !.messages = messages, !.status = 0,
                       !.headersSent = FALSE, !.json = FALSE,
                       !.events = << >>, !.ended = FALSE]
  IN IF ~messages.present \/ ~messages.isArray THEN json(req, 400)
     ELSE validateMessages(req, 1)

\* a request arrives
Post ==
  /\ sse.pc \in {"idle", "returned"}
  /\ sse.posts < MaxPosts
  /\ \E messages \in Bodies :
       sse' = [streamChat(sse, messages) EXCEPT !.posts = sse.posts + 1]
  /\ UNCHANGED <<todoVars, chat, imageGen, vision>>

\* streamChatCompletion yields a chunk
Yield ==
  /\ sse.pc = "streaming"
  /\ Len(sse.events) < MaxYields
  /\ sse' = write(sse, "content")
  /\ UNCHANGED <<todoVars, chat, imageGen, vision>>

\* streamChatCompletion returns
Completes ==
  /\ sse.pc = "streaming"
  /\ sse' = end(write(sse, "done"))
  /\ UNCHANGED <<todoVars, chat, imageGen, vision>>

\* streamChatCompletion throws
Throws ==
  /\ sse.pc = "streaming"
  /\ sse' = end(write(sse, "error"))
  /\ UNCHANGED <<todoVars, chat, imageGen, vision>>

NextSse == Post \/ Yield \/ Completes \/ Throws

SpecSse == Init /\ [][NextSse]_vars

\* -------------------------------------------------------- image generation
MaxClicks == 4
MaxImages == 2

\* a handleGenerate that does not set isGenerating
handleGenerateUnflagged(g) ==
  IF Trim(g.prompt) = << >> THEN [g EXCEPT !.status = "error"]
  ELSE IF g.isGenerating THEN g
  ELSE [g EXCEPT !.disabled = TRUE,
                 !.status = "info",
                 !.generatedImages = 0,
                 !.inFlight = @ + 1,
                 !.requests = @ + 1]

\* handleGenerate up to its await of generateImageAPI
handleGenerate(g) ==
  IF Trim(g.prompt) = << >> THEN [g EXCEPT !.status = "error"]
  ELSE IF g.isGenerating THEN g
  ELSE [g EXCEPT !.isGenerating = TRUE,
                 !.disabled = TRUE,
                 !.status = "info",
                 !.generatedImages = 0,
                 !.inFlight = @ + 1,
                 !.requests = @ + 1]

\* handleGenerate from the await on: the response is shown, or the error;
\* the finally block runs in both cases
handleGenerateSettled(g, ok, success, images) ==
  LET shown == IF ok /\ success /\ images > 0
               THEN [g EXCEPT !.generatedImages = images, !.status = "success"]
               ELSE [g EXCEPT !.status = "error"]
  IN [shown EXCEPT !.isGenerating = FALSE,
                   !.disabled = FALSE,
                   !.inFlight = @ - 1]

\* what an event did: whether it started a request
Handled(g, after, ev) ==
  [after EXCEPT !.clicks = g.clicks + 1,
                !.last = [ev |-> ev, started |-> after.requests > g.requests]]

\* the user edits the prompt
PromptInput ==
  /\ \E v \in Values : imageGen' = [imageGen EXCEPT !.prompt = v]
  /\ UNCHANGED <<todoVars, chat, sse, vision>>

\* a click on the generate button; a disabled button dispatches none
GenerateClick ==
  /\ imageGen.clicks < MaxClicks
  /\ ~imageGen.disabled
  /\ imageGen' = Handled(imageGen, handleGenerate(imageGen), "click")
  /\ UNCHANGED <<todoVars, chat, sse, vision>>

\* Shift+Enter in the prompt: the keydown listener
ShiftEnter ==
  /\ imageGen.clicks < MaxClicks
  /\ imageGen' = Handled(imageGen,
                         IF ~imageGen.isGenerating THEN handleGenerate(imageGen)
                         ELSE imageGen,
                         "keydown")
  /\ UNCHANGED <<todoVars, chat, sse, vision>>

\* generateImageAPI settles: it returns a response or throws
GenerateSettles ==
  /\ imageGen.inFlight > 0
  /\ \E ok \in BOOLEAN, success \in BOOLEAN, images \in 0..MaxImages :
       imageGen' = [handleGenerateSettled(imageGen, ok, success, images)
                      EXCEPT !.last = [ev |-> "settled", started |-> FALSE]]
  /\ UNCHANGED <<todoVars, chat, sse, vision>>

NextImageGen == PromptInput \/ GenerateClick \/ ShiftEnter \/ GenerateSettles

SpecImageGen == Init /\ [][NextImageGen]_vars

\* ----------------------------------------------------------- image analysis
MaxUserEvents == 5

\* handleImageUpload: a file that is no image or is too large is refused,
\* another one is handed to a FileReader
handleImageUpload(v, accepted) ==
  IF ~accepted THEN v ELSE [v EXCEPT !.loading = @ + 1]

\* reader.onload
onload(v) ==
  [v EXCEPT !.loading = @ - 1, !.currentImage = TRUE, !.disabled = FALSE]

\* handleAnalyze up to its await of analyzeImageAPI
handleAnalyze(v) ==
  IF ~v.currentImage \/ v.isAnalyzing THEN v
  ELSE [v EXCEPT !.analysisResult = "",
                 !.isAnalyzing = TRUE,
                 !.disabled = TRUE,
                 !.streams = @ + 1]

handleClear(v) ==
  [v EXCEPT !.currentImage = FALSE,
            !.analysisResult = "",
            !.isAnalyzing = FALSE,
            !.disabled = TRUE]

enableAnalyzeButton(v) ==
  [v EXCEPT !.disabled = IF v.currentImage THEN FALSE ELSE @,
            !.isAnalyzing = FALSE]

\* the callbacks handleAnalyze passes to analyzeImageAPI
onAnalysisChunk(v) == [v EXCEPT !.analysisResult = "text"]

onAnalysisError(v) == enableAnalyzeButton([v EXCEPT !.analysisResult = "error"])

onAnalysisComplete(v) == enableAnalyzeButton(v)

\* the user picks a file
ImageUpload ==
  /\ vision.events < MaxUserEvents
  /\ \E accepted \in BOOLEAN :
       vision' = [handleImageUpload(vision, accepted) EXCEPT !.events = vision.events + 1]
  /\ UNCHANGED <<todoVars, chat, sse, imageGen>>

ImageLoaded ==
  /\ vision.loading > 0
  /\ vision' = onload(vision)
  /\ UNCHANGED <<todoVars, chat, sse, imageGen>>

\* a click on Analyze; a disabled button dispatches none
AnalyzeClick ==
  /\ vision.events < MaxUserEvents
  /\ ~vision.disabled
  /\ vision' = [handleAnalyze(vision) EXCEPT !.events = vision.events + 1]
  /\ UNCHANGED <<todoVars, chat, sse, imageGen>>

ClearClick ==
  /\ vision.events < MaxUserEvents
  /\ vision' = [handleClear(vision) EXCEPT !.events = vision.events + 1]
  /\ UNCHANGED <<todoVars, chat, sse, imageGen>>

\* a running stream delivers a content event
AnalysisChunk ==
  /\ vision.streams > 0
  /\ vision' = onAnalysisChunk(vision)
  /\ UNCHANGED <<todoVars, chat, sse, imageGen>>

\* a running stream ends: with an error event or a failure, with a done
\* event, or with the end of the body, for which no callback is invoked
AnalysisEnds ==
  /\ vision.streams > 0
  /\ \E how \in {"error", "done", "end"} :
       vision' = [(CASE how = "error" -> onAnalysisError(vision)
                     [] how = "done" -> onAnalysisComplete(vision)
                     [] OTHER -> vision)
                    EXCEPT !.streams = vision.streams - 1]
  /\ UNCHANGED <<todoVars, chat, sse, imageGen>>

NextVision ==
  \/ ImageUpload \/ ImageLoaded \/ AnalyzeClick \/ ClearClick
  \/ AnalysisChunk \/ AnalysisEnds

SpecVision == Init /\ [][NextVision]_vars

\* ------------------------------------------------------------------ claims
Range(q) == {q[i] : i \in 1..Len(q)}

Resolved(m) == resolveCalls[m] > 0

\* C1: the modal host holds at most one overlay at every instant: exactly
\* the active modal's while a modal is active, none when no modal is active,
\* however many requests were made before any of them resolved.
C1_SingleOverlay ==
  /\ Cardinality(host) <= 1
  /\ activeModal # 0 => host = {activeModal}
  /\ activeModal = 0 => host = {}

\* two requests are waiting behind the active modal and none has resolved
C1_Witness ==
  /\ Len(modalQueue) >= 2
  /\ \A m \in Ids : ~Resolved(m)
  /\ host = {activeModal}

\* C2: requests are started and resolved in the order of their open calls:
\* a started request has every earlier request resolved, and both the
\* starts and the resolutions happen in call order.
C2_Fifo ==
  /\ \A i \in 1..Len(startOrder) : startOrder[i] = i
  /\ \A i \in 1..Len(resolveOrder) : resolveOrder[i] = i
  /\ \A m \in Range(startOrder) : \A j \in 1..(m - 1) : Resolved(j)

\* the first modal has resolved, the second is active, and the request made
\* after that resolution waits behind it
C2_Witness ==
  /\ last = [ev |-> "open", id |-> 3]
  /\ Resolved(1)
  /\ activeModal = 2
  /\ modalQueue = <<3>>

\* C3: the resolve of a request's promise is invoked at most once, and
\* exactly once when the request has closed, also when handlers wired to a
\* removed modal run again.
C3_ResolvedOnce ==
  \A m \in Ids :
    /\ resolveCalls[m] <= 1
    /\ Resolved(m) <=> promise[m] # Pending
    /\ Removed(m) => resolveCalls[m] = 1

\* a handler of a removed, resolved modal has just run
C3_Witness ==
  /\ last.ev \in {"stale confirm", "stale cancel", "stale backdrop"}
  /\ Removed(last.id)
  /\ resolveCalls[last.id] = 1

Requested(m) == m <= nextId

\* C4: when the user eventually performs a terminal action on whichever
\* modal is on screen, every request that was made eventually becomes the
\* active modal and eventually resolves: none stays in the queue for ever.
C4_EveryRequestResolves ==
  \A m \in Ids :
    /\ Requested(m) ~> Started(m)
    /\ Requested(m) ~> Resolved(m)

\* every request has resolved, the last one after waiting in the queue (a
\* start that closeModal runs finds the focus on the body)
C4_Witness ==
  /\ nextId = MaxRequests
  /\ \A m \in Ids : Resolved(m)
  /\ activeModal = 0
  /\ \A m \in Ids \ {1} : previousActiveElement[m] = Body

RequiredBlank(m) ==
  LET fields == request[m].options.fields
  IN \E i \in 1..Len(fields) : fields[i].required /\ Trim(input[m][i]) = << >>

NotDismissible(m) == request[m].options.dismissible = JsFalse

\* C5: a confirm attempt on a form modal with a required field that is blank
\* after trimming leaves the modal active and its promise unresolved, with
\* activeModal, activeResolver, the queue, the scroll lock and the focus trap
\* unchanged; a confirm attempt with every required field filled closes and
\* resolves the modal as confirmed.
C5_ValidationBlocksConfirm ==
  [][\A m \in Ids :
       (Attached(m) /\ Len(input[m]) > 0 /\ last' = [ev |-> "confirm", id |-> m]) =>
         IF RequiredBlank(m)
         THEN /\ UNCHANGED <<activeModal, activeResolver, modalQueue, scrollLocked,
                             releaseFocusTrap, listeners, host, focus, input,
                             resolveCalls, promise>>
              /\ activeModal' = m
              /\ promise'[m] = Pending
         ELSE /\ ~Attached(m)'
              /\ promise'[m] # Pending
              /\ promise'[m].confirmed
    ]_vars

\* a confirm attempt has just failed: the modal is still active and the
\* error of its blank required field is shown
C5_Witness ==
  \E m \in Ids :
    /\ activeModal = m
    /\ last = [ev |-> "confirm", id |-> m]
    /\ promise[m] = Pending
    /\ \E i \in 1..Len(error[m]) : error[m][i] /\ Trim(input[m][i]) = << >>

\* C6: an outcome carries values if and only if it is confirmed and the
\* request declared at least one field; the mapping then has an entry for
\* every declared field name, an empty string for a control left empty; an
\* outcome that is not confirmed is {confirmed: false} and nothing else.
C6_ValuesIffConfirmedForm ==
  \A m \in Ids :
    promise[m] # Pending =>
      LET r == promise[m]
          fields == request[m].options.fields
      IN /\ ("values" \in DOMAIN r) <=> (r.confirmed /\ Len(fields) > 0)
         /\ "values" \in DOMAIN r =>
              /\ DOMAIN r.values = {fields[i].name : i \in 1..Len(fields)}
              /\ \A n \in DOMAIN r.values : r.values[n] \in Values
         /\ ~r.confirmed => r = [confirmed |-> FALSE]

\* a confirmed form outcome whose optional field was left blank
C6_Witness ==
  \E m \in Ids :
    /\ promise[m] # Pending
    /\ promise[m].confirmed
    /\ "values" \in DOMAIN promise[m]
    /\ DOMAIN promise[m].values = {"name", "note"}
    /\ promise[m].values["note"] = << >>

\* C7: showFormModal returns null only on cancel or dismissal: an accepted
\* confirm returns the value mapping, whatever fields array was passed.
C7_FormConfirmNeverNull ==
  \A m \in Ids :
    (request[m].kind = "form" /\ promise[m] # Pending /\ promise[m].confirmed) =>
      showFormModalReturn(promise[m]) # NullReturn

\* C8: Escape on a dismissible modal closes it and resolves it with
\* {confirmed: false}; Escape and backdrop clicks on a modal that is not
\* dismissible change nothing: it stays active and unresolved.
C8_EscapeSemantics ==
  [][\A m \in Ids :
       (Attached(m) /\ last'.id = m /\ last'.ev \in {"escape", "backdrop"}) =>
         IF NotDismissible(m)
         THEN /\ UNCHANGED coord
              /\ activeModal = m
              /\ promise[m] = Pending
         ELSE last'.ev = "escape" =>
                /\ ~Attached(m)'
                /\ resolveCalls'[m] = 1
                /\ promise'[m] = [confirmed |-> FALSE]
    ]_vars

\* Escape was pressed on a modal that is not dismissible, and it is still
\* the active modal
C8_Witness ==
  \E m \in Ids :
    /\ last = [ev |-> "escape", id |-> m]
    /\ NotDismissible(m)
    /\ activeModal = m
    /\ promise[m] = Pending

\* C9: a click on the cancel button, or on the backdrop of a dismissible
\* modal, closes the modal and resolves it with {confirmed: false} and no
\* values, whatever its controls hold; showConfirmModal then returns false
\* and showFormModal null.
C9_CancelResolvesFalse ==
  [][\A m \in Ids :
       (/\ Attached(m)
        /\ last'.id = m
        /\ \/ last'.ev = "cancel"
           \/ last'.ev = "backdrop" /\ ~NotDismissible(m)) =>
         /\ ~Attached(m)'
         /\ resolveCalls'[m] = 1
         /\ promise'[m] = [confirmed |-> FALSE]
         /\ request[m].kind = "confirm" => showConfirmModalReturn(promise'[m]) = FALSE
         /\ request[m].kind = "form" => showFormModalReturn(promise'[m]) = NullReturn
    ]_vars

\* a form with fields was cancelled by its cancel button
C9_Witness ==
  \E m \in Ids :
    /\ last = [ev |-> "cancel", id |-> m]
    /\ request[m].kind = "form"
    /\ Len(request[m].options.fields) > 0
    /\ promise[m] = [confirmed |-> FALSE]

\* C10 as stated: an alert never renders a cancel button, whatever
\* cancelLabel its caller supplies.
C10_AlertNeverCancel ==
  \A m \in Ids :
    (Started(m) /\ request[m].kind = "alert") =>
      ~hasCancelButton(openOptions(request[m]))

\* C10 as amended: an alert renders a cancel button exactly when its caller
\* supplies a cancelLabel string; with cancelLabel unset or null it renders
\* none, and its only buttons are then the confirm button.
C10_AlertCancelOnlyIfSupplied ==
  \A m \in Ids :
    (Started(m) /\ request[m].kind = "alert") =>
      LET o == openOptions(request[m])
      IN /\ hasCancelButton(o) <=> request[m].options.cancelLabel \notin {Undefined, Null}
         /\ request[m].options.cancelLabel \in {Undefined, Null} =>
              getFocusableElements(o) = <<"confirm">>

\* an alert opened without a cancelLabel is on screen
C10_Witness ==
  \E m \in Ids :
    /\ Attached(m)
    /\ request[m].kind = "alert"
    /\ request[m].options.cancelLabel = Undefined
    /\ ~hasCancelButton(openOptions(request[m]))

\* the cancel label a dialog kind gets when its caller leaves cancelLabel
\* unset: an alert has no cancel action, a confirm and a form have "Cancel"
DefaultCancelLabel(kind) == IF kind = "alert" THEN Null ELSE "Cancel"

\* C11: for each of the three entry points, a request whose cancelLabel is
\* null renders no cancel button, and a request that leaves cancelLabel unset
\* gets the default cancel label of its dialog kind.
C11_NullSuppressesCancel ==
  \A m \in Ids :
    Started(m) =>
      LET o == openOptions(request[m])
      IN /\ request[m].options.cancelLabel = Null => ~hasCancelButton(o)
         /\ request[m].options.cancelLabel = Undefined =>
              cancelLabel(o) = DefaultCancelLabel(request[m].kind)

\* C12: between event handlers activeModal is non-null iff activeResolver is
\* non-null iff releaseFocusTrap is set; the pending resolver is the active
\* modal's own, not yet invoked, and there is none when no modal is active.
C12_ActiveResolverTrap ==
  /\ (activeModal # 0) <=> (activeResolver # 0)
  /\ (activeResolver # 0) <=> (releaseFocusTrap # 0)
  /\ activeModal # 0 =>
       /\ activeResolver = activeModal
       /\ releaseFocusTrap = activeModal
       /\ resolveCalls[activeModal] = 0
       /\ promise[activeModal] = Pending

\* a close has just started the queued modal: the three references moved on
\* to it together
C12_Witness ==
  /\ last.ev \in {"confirm", "cancel", "backdrop", "escape"}
  /\ Resolved(last.id)
  /\ activeModal # 0
  /\ activeModal # last.id
  /\ activeResolver = activeModal
  /\ releaseFocusTrap = activeModal

\* C13: the viewer flows remove data only in the continuation of a
\* showConfirmModal that resolved true: handleDeleteTodo then calls
\* deleteTodo, handleClearCompleted clearCompletedTodos and the
\* delete-category handler deleteCategory; a confirmation that resolved
\* false leaves the store unchanged.
C13_DeleteOnlyAfterConfirm ==
  [][/\ store' # store =>
          \E m \in Ids :
            /\ last' = [ev |-> "resume", id |-> m]
            /\ request[m].kind = "confirm"
            /\ promise[m] = [confirmed |-> TRUE]
            /\ store' =
                 CASE continuation[m].kind = "handleDeleteTodo" ->
                        deleteTodo(store, continuation[m].arg[1])
                   [] continuation[m].kind = "handleClearCompleted" ->
                        clearCompletedTodos(store)
                   [] OTHER -> deleteCategory(store, continuation[m].arg[1])
     /\ \A m \in Ids :
          (/\ Resumable(m)
           /\ last' = [ev |-> "resume", id |-> m]
           /\ request[m].kind = "confirm"
           /\ promise[m] = [confirmed |-> FALSE]) => store' = store
    ]_vars

\* the delete-category flow has run to its end: a category was picked in the
\* form, the confirmation resolved true and the category is gone
C13_Witness ==
  \E m \in Ids :
    /\ last = [ev |-> "resume", id |-> m]
    /\ continuation[m].kind = "deleteCategoryClick"
    /\ request[m].kind = "confirm"
    /\ promise[m] = [confirmed |-> TRUE]
    /\ store.categories = << <<"1">> >>

StaleEvents == {"stale confirm", "stale cancel", "stale backdrop"}

\* C14: a terminal action wired to modal N only ever closes and resolves
\* modal N: when it fires after N has closed while another modal M is
\* active, M stays open, M's promise stays unresolved and no outcome is set.
C14_StaleHandlerOnlyOwn ==
  [][\A n \in Ids :
       (Removed(n) /\ activeModal # 0 /\ last'.id = n /\ last'.ev \in StaleEvents) =>
         /\ activeModal' = activeModal
         /\ host' = host
         /\ resolveCalls' = resolveCalls
         /\ promise' = promise
    ]_vars

\* C15: an open call made while a modal is active only appends one deferred
\* start to the end of modalQueue: the active overlay, activeResolver, the
\* host, the scroll lock, the focus trap, the focus and the controls are
\* unchanged, and no queued request has a panel in the host.
C15_OpenWhileActiveOnlyQueues ==
  [][(activeModal # 0 /\ nextId' = nextId + 1) =>
       /\ modalQueue' = Append(modalQueue, nextId')
       /\ UNCHANGED <<activeModal, activeResolver, host, scrollLocked,
                      releaseFocusTrap, listeners, focus, input, error,
                      previousActiveElement, resolveCalls, promise, startOrder>>
       /\ \A i \in 1..Len(modalQueue') :
            /\ modalQueue'[i] \notin host'
            /\ \A j \in 1..Len(startOrder') : startOrder'[j] # modalQueue'[i]
    ]_vars

\* a third request was made while the first modal is active and the second
\* waits: it waits behind the second
C15_Witness ==
  /\ last = [ev |-> "open", id |-> 3]
  /\ activeModal = 1
  /\ modalQueue = <<2, 3>>
  /\ host = {1}
  /\ promise[3] = Pending

\* C16: modalQueue is non-empty only while a modal is active: between event
\* handlers no request is queued with no modal active, and a queued request
\* has neither started nor resolved.
C16_QueueOnlyWhileActive ==
  /\ modalQueue # << >> => activeModal # 0
  /\ \A i \in 1..Len(modalQueue) :
       /\ ~Started(modalQueue[i])
       /\ promise[modalQueue[i]] = Pending

\* a close has just started the head of the queue while another request
\* still waits
C16_Witness ==
  /\ last.ev \in {"confirm", "cancel", "backdrop", "escape"}
  /\ last.id = 1
  /\ Resolved(1)
  /\ activeModal = 2
  /\ modalQueue = <<3>>

\* C17 as stated: on close the modal's resolver is invoked before its
\* overlay is removed from the host, scroll is unlocked, the focus trap is
\* deactivated and the next queued request is started.
C17_ResolverBeforeTeardown ==
  atResolve.id # 0 =>
    /\ atResolve.attached
    /\ atResolve.scrollLocked
    /\ atResolve.trapped
    /\ atResolve.started = Len(SelectSeq(startOrder, LAMBDA m : m <= atResolve.id))

\* C17 as amended: on close the teardown comes first: when the modal's
\* resolver is invoked its overlay is already removed from the host, scroll
\* is unlocked and the focus trap is deactivated; the next queued request is
\* started only after the resolver was invoked.
C17_TeardownBeforeResolver ==
  atResolve.id # 0 =>
    /\ ~atResolve.attached
    /\ ~atResolve.scrollLocked
    /\ ~atResolve.trapped
    /\ atResolve.started = Len(SelectSeq(startOrder, LAMBDA m : m <= atResolve.id))

\* a close with a request waiting: the resolver was invoked after the
\* teardown, and the waiting request was started after that
C17_Witness ==
  /\ atResolve.id = 1
  /\ ~atResolve.attached
  /\ atResolve.started = 1
  /\ activeModal = 2
  /\ startOrder = <<1, 2>>

TerminalEvents == {"confirm", "cancel", "backdrop", "escape"}

\* C18: when a modal closes, the focus is restored to the element that had
\* it when that modal started if and only if no request was queued at the
\* time of the terminal action; when a queued modal takes over, the focus is
\* on that modal's first control and nothing is restored. A confirm attempt
\* that fails validation does not move the focus.
C18_FocusRestoredIffNothingQueued ==
  [][\A m \in Ids :
       (Attached(m) /\ last'.id = m /\ last'.ev \in TerminalEvents) =>
         IF Attached(m)'
         THEN focus' = focus
         ELSE IF modalQueue = << >>
              THEN focus' = previousActiveElement[m]
              ELSE /\ focus' # previousActiveElement[m]
                   /\ focus' = <<Head(modalQueue), 1>>
    ]_vars

\* the first modal was closed while a request waited: the focus went to the
\* queued modal and not back to the page
C18_Witness ==
  /\ last.id = 1
  /\ last.ev \in TerminalEvents
  /\ Resolved(1)
  /\ previousActiveElement[1] = PageControl
  /\ activeModal = 2
  /\ focus = <<2, 1>>

\* The second request was started from the queue, by the close of the
\* first: the overlay of the first had just been removed and nothing had the
\* focus. (A second request made after the first closed finds the focus
\* restored to the page.)
SecondWasQueued == Started(2) /\ previousActiveElement[2] = Body

\* C19: after the last modal of a back-to-back (queued) sequence closes, the
\* focus is back on the element that had it before the first modal of the
\* sequence opened; stated for the sequences made of the first two requests.
C19_FocusBackAfterSequence ==
  (/\ SecondWasQueued
   /\ last.id = 2
   /\ last.ev \in TerminalEvents
   /\ Resolved(2)
   /\ activeModal = 0) =>
    focus = previousActiveElement[1]

\* C20: focus traps never overlap: at most one keydown listener is attached
\* at any time, the active modal's, and none when no modal is active; when a
\* trap is activated the listener of the modal that closed was already
\* removed.
C20_TrapsNeverOverlap ==
  /\ Cardinality(listeners) <= 1
  /\ activeModal = 0 => listeners = {}
  /\ activeModal # 0 => listeners = {activeModal}
  /\ atActivate.attached = {}

\* a close has just started the queued modal: its trap is the only one, and
\* no listener was attached when it was activated
C20_Witness ==
  /\ last.id = 1
  /\ last.ev \in TerminalEvents
  /\ Resolved(1)
  /\ activeModal = 2
  /\ listeners = {2}
  /\ atActivate = [id |-> 2, attached |-> {}]

\* C21: the body scroll lock is set exactly when a modal is active: set on
\* every open, cleared by a close that leaves no modal active, and still set
\* after a close that hands over to a queued modal.
C21_ScrollLockedIffActive ==
  /\ scrollLocked <=> activeModal # 0
  /\ scrollLocked <=> host # {}

\* a close has just handed over to the queued modal, and scroll is locked
C21_Witness ==
  /\ last.id = 1
  /\ last.ev \in TerminalEvents
  /\ Resolved(1)
  /\ activeModal = 2
  /\ scrollLocked

\* C22: while a modal's trap is active, Tab with the focus on the last
\* focusable control of the panel moves the focus to the first and Shift+Tab
\* on the first moves it to the last, for panels of one or more focusable
\* controls; the focus is on a control of the active modal's panel for as
\* long as the modal is active.
C22_TabWraps ==
  [][/\ \A m \in Ids :
          (Attached(m) /\ last'.id = m /\ last'.ev \in {"tab", "shift tab"}) =>
            LET n == Len(getFocusableElements(openOptions(request[m])))
            IN /\ (last'.ev = "tab" /\ focus = <<m, n>>) => focus' = <<m, 1>>
               /\ (last'.ev = "shift tab" /\ focus = <<m, 1>>) => focus' = <<m, n>>
               /\ focus'[1] = m
               /\ focus'[2] \in 1..n
     /\ activeModal' # 0 => focus'[1] = activeModal'
    ]_vars

\* Tab was pressed on the last of three controls and the focus is on the
\* first
C22_Witness ==
  \E m \in Ids :
    /\ last = [ev |-> "tab", id |-> m]
    /\ activeModal = m
    /\ Len(getFocusableElements(openOptions(request[m]))) = 3
    /\ focus = <<m, 1>>
    /\ promise[m] = Pending

\* a value that is empty or made of spaces only
Blank(v) == \A k \in 1..Len(v) : v[k] = " "

\* the required fields of an on-screen form whose control holds a blank value
Invalid(m) ==
  LET fields == request[m].options.fields
  IN {i \in 1..Len(fields) : fields[i].required /\ Blank(input[m][i])}

\* C23: a confirm attempt on a form is accepted iff every required field
\* holds a value that is not blank after trimming, whatever the optional
\* fields hold; a failing attempt marks the error of every invalid field, not
\* only the first, and of no other field.
C23_ValidateFields ==
  [][\A m \in Ids :
       (Attached(m) /\ Len(input[m]) > 0 /\ last' = [ev |-> "confirm", id |-> m]) =>
         /\ ~Attached(m)' <=> Invalid(m) = {}
         /\ Invalid(m) # {} =>
              \A i \in 1..Len(input[m]) : error'[m][i] <=> i \in Invalid(m)
    ]_vars

\* a confirm attempt failed on both required fields at once: both errors
\* are shown, the optional field's is not
C23_Witness ==
  \E m \in Ids :
    /\ last = [ev |-> "confirm", id |-> m]
    /\ activeModal = m
    /\ Len(error[m]) = 3
    /\ error[m] = <<TRUE, TRUE, FALSE>>
    /\ input[m][3] = << >>

\* request m is started by this step
StartedNow(m) == ~Started(m) /\ Started(m)'

\* an accepted confirm of an on-screen form delivers what its controls hold
RawOutcome ==
  \A m \in Ids :
    (/\ Attached(m) /\ Len(input[m]) > 0
     /\ last' = [ev |-> "confirm", id |-> m]
     /\ ~Attached(m)') =>
      /\ promise'[m].confirmed
      /\ \A i \in 1..Len(input[m]) :
           promise'[m].values[request[m].options.fields[i].name] = input[m][i]

\* between its start and its close a control's value changes by an input
\* event on it only
OnlyInputChanges ==
  \A m \in Ids :
    (Attached(m) /\ Attached(m)' /\ input'[m] # input[m]) =>
      last' = [ev |-> "input", id |-> m]

\* C24 as stated: in a confirmed form outcome each value is the control's
\* raw current value, untrimmed; a control the user never touched holds the
\* field's initialValue, or the empty string when none was given, for every
\* field type.
C24_UntouchedIsInitialValue ==
  [][/\ RawOutcome
     /\ OnlyInputChanges
     /\ \A m \in Ids :
          StartedNow(m) =>
            \A i \in 1..Len(input'[m]) :
              LET field == request'[m].options.fields[i]
              IN input'[m][i] =
                   IF field.initialValue = UndefinedValue THEN << >>
                   ELSE field.initialValue
    ]_vars

\* C24 as amended: in a confirmed form outcome each value is the control's
\* raw current value, untrimmed; a control the user never touched holds, for
\* a text or textarea field, the initialValue or the empty string when none
\* was given; for a select, the initialValue when it is the value of one of
\* its options and otherwise the value of its first option; for a date, the
\* initialValue when it is a valid date string and otherwise the empty string.
C24_UntouchedPerType ==
  [][/\ RawOutcome
     /\ OnlyInputChanges
     /\ \A m \in Ids :
          StartedNow(m) =>
            \A i \in 1..Len(input'[m]) :
              LET field == request'[m].options.fields[i]
                  given == field.initialValue # UndefinedValue
                  value == input'[m][i]
              IN CASE field.type = "select" ->
                        IF given /\ field.initialValue \in {<<"a">>, <<"b">>}
                        THEN value = field.initialValue
                        ELSE value = <<"a">>
                   [] field.type = "date" ->
                        IF field.initialValue = LeapDay
                        THEN value = LeapDay
                        ELSE value = << >>
                   [] OTHER ->
                        value = IF given THEN field.initialValue ELSE << >>
    ]_vars

\* the first request, a select without initialValue, was confirmed and
\* delivered the value of its first option
C24_Witness ==
  /\ last = [ev |-> "confirm", id |-> 1]
  /\ request[1].options.fields[1].type = "select"
  /\ request[1].options.fields[1].initialValue = UndefinedValue
  /\ promise[1] # Pending
  /\ promise[1].values["status"] = <<"a">>

\* C25: a field's error is visible exactly when the latest confirm attempt
\* failed validation on that field and no input event has occurred on its
\* control since: it is hidden when the modal opens, shown only by a failed
\* confirm attempt, on the fields that are invalid, hidden again by the next
\* input event on its control, whatever that leaves in the control, and
\* changed by nothing else.
C25_ErrorVisibility ==
  [][\A m \in Ids :
       /\ StartedNow(m) => \A i \in 1..Len(error'[m]) : ~error'[m][i]
       /\ (Attached(m) /\ Attached(m)') =>
            /\ last' = [ev |-> "confirm", id |-> m] =>
                 \A i \in 1..Len(error[m]) :
                   error'[m][i] <=> (error[m][i] \/ i \in Invalid(m))
            /\ last' = [ev |-> "input", id |-> m] =>
                 \E i \in 1..Len(error[m]) :
                   /\ ~error'[m][i]
                   /\ \A j \in 1..Len(error[m]) :
                        j # i => /\ error'[m][j] = error[m][j]
                                 /\ input'[m][j] = input[m][j]
            /\ last'.id # m \/ last'.ev \notin {"confirm", "input"} =>
                 error'[m] = error[m]
            /\ \A i \in 1..Len(error[m]) : error[m][i] => i \in Invalid(m)
    ]_vars

\* after a confirm attempt that failed on both required fields an input
\* event left the first control blank: its error is hidden all the same,
\* the other one still shown
C25_Witness ==
  \E m \in Ids :
    /\ last = [ev |-> "input", id |-> m]
    /\ activeModal = m
    /\ Len(error[m]) = 3
    /\ error[m] = <<FALSE, TRUE, FALSE>>
    /\ input[m][1] = << >>

\* C26: every call of streamChatAPI ends by invoking exactly one of
\* onComplete and onError, once, however the response ends; no callback is
\* invoked after it, and the chat input is enabled again when the call has
\* returned.
Terminal == {"onComplete", "onError"}

C26_OneTerminalCallback ==
  /\ \A i \in 1..Len(chat.calls) :
       chat.calls[i] \in Terminal => i = Len(chat.calls)
  /\ chat.pc = "returned" =>
       /\ chat.calls # << >>
       /\ chat.calls[Len(chat.calls)] \in Terminal
       /\ ~chat.isStreaming
       /\ ~chat.disabled

\* C27: a request that passes validation gets an SSE response that ends with
\* exactly one terminal event, done or error, with no event after it; a
\* request whose messages are missing, not an array, or hold an element that
\* is not a message with a known role and a content gets a 400 response and
\* no SSE event.
WellFormed(msg) == ~msg.null /\ msg.role \in Roles /\ msg.content

ValidBody(messages) ==
  /\ messages.present
  /\ messages.isArray
  /\ \A i \in 1..Len(messages.items) : WellFormed(messages.items[i])

C27_OneTerminalEventOr400 ==
  /\ \A i \in 1..Len(sse.events) :
       sse.events[i] \in {"done", "error"} => i = Len(sse.events)
  /\ (sse.ended /\ ValidBody(sse.messages)) =>
       /\ sse.status = 200
       /\ sse.events # << >>
       /\ sse.events[Len(sse.events)] \in {"done", "error"}
  /\ (sse.pc # "idle" /\ ~ValidBody(sse.messages)) =>
       /\ sse.status = 400
       /\ sse.events = << >>
       /\ sse.ended

\* C28: at most one image generation request is in flight; while one is, the
\* viewer is generating and its button is disabled, so that no click and no
\* Shift+Enter starts a second one; once the request has ended, with images
\* or with an error, isGenerating is false and the button is enabled.
C28_OneGenerationInFlight ==
  /\ imageGen.inFlight <= 1
  /\ imageGen.inFlight = 1 => imageGen.isGenerating /\ imageGen.disabled
  /\ imageGen.inFlight = 0 => ~imageGen.isGenerating /\ ~imageGen.disabled

\* a first request has ended, a second one is in flight and a Shift+Enter
\* with a prompt in the input started nothing
C28_Witness ==
  /\ imageGen.requests = 2
  /\ imageGen.inFlight = 1
  /\ Trim(imageGen.prompt) # << >>
  /\ imageGen.last = [ev |-> "keydown", started |-> FALSE]

\* C29: at most one image analysis stream is in flight at any time, whatever
\* the order of Analyze, Clear and upload events and of the callbacks of a
\* running stream.
C29_OneAnalysisStream == vision.streams <= 1

\* C30: every todo's categoryId names a category of the store, whatever the
\* flows do: no category is deleted while a todo references it and no todo is
\* created or edited to reference a category that is gone.
C30_CategoriesExist ==
  \A i \in 1..Len(store.todos) :
    \E j \in 1..Len(store.categories) :
      store.categories[j] = store.todos[i].categoryId

====
